---- MODULE Spec2Model ----
(***************************************************************************)
(* Model of app/(tabs)/explore.tsx: the HomeScreen component.  The file    *)
(* holds two versions of the component; they share pickImage, takePhoto    *)
(* and analyzeWithAI and differ in the size-reduction part of extractText. *)
(* `variant` selects the version (1: lines 19-199, 2: lines 266-446).      *)
(*                                                                         *)
(* JavaScript runs every continuation between two awaits atomically, so    *)
(* there is one action per resolution of an await; its outcome (value or   *)
(* rejection) is drawn with \E.  React state setters are modelled by the   *)
(* value the state has once the continuation has finished.                 *)
(***************************************************************************)
EXTENDS Integers, Sequences, FiniteSets, TLC

\* ---------------------------------------------------------------- bounds
\* number of capture events that start a pipeline run
MaxRuns == 2

\* ------------------------------------------------------------- constants
\* byte ceiling: MAX_FILE_SIZE (first version), maxBytes (second version)
MAX_FILE_SIZE == 1048576
maxBytes == 1024 * 1024

\* ----------------------------------------------- IEEE-754 double values
\* A quality is a JavaScript number.  Every value the loops produce is a
\* multiple of 2^-56, so a double d is the pair <<hi, lo>> with
\* d = (hi * 2^28 + lo) * 2^-56 and 0 <= lo < 2^28 (hi < 0 for d < 0).
Limb == 2^28

Q01 == <<26843545, 161061274>>
Q015 == <<40265318, 107374182>>
Q06 == <<161061273, 161061272>>
Q07 == <<187904819, 53687088>>
Q09 == <<241591910, 107374184>>

\* d > e
DGreater(d, e) == d[1] > e[1] \/ (d[1] = e[1] /\ d[2] > e[2])

\* d >= e
DGeq(d, e) == d[1] > e[1] \/ (d[1] = e[1] /\ d[2] >= e[2])

\* spacing of doubles (in units of 2^-56) in the binade of <<hi, lo>>
DQuantum(hi) ==
  IF hi >= 134217728 THEN 8
  ELSE IF hi >= 67108864 THEN 4
  ELSE IF hi >= 33554432 THEN 2
  ELSE 1

\* round the exact value <<hi, lo>> to the nearest double, ties to even
DRound(hi, lo) ==
  LET q == DQuantum(hi)
      r == lo % q
      base == lo - r
      up == (2 * r > q) \/ (2 * r = q /\ (base \div q) % 2 = 1)
      lo2 == IF up THEN base + q ELSE base
  IN  IF lo2 >= Limb THEN <<hi + 1, lo2 - Limb>> ELSE <<hi, lo2>>

\* d - e as JavaScript computes it
DSub(d, e) ==
  LET borrow == IF d[2] < e[2] THEN 1 ELSE 0
      lo == d[2] - e[2] + borrow * Limb
      hi == d[1] - e[1] - borrow
  IN  DRound(hi, lo)

\* ---------------------------------------------------------- pure helpers
\* calcBytes: decoded byte count of a base64 string of length len
calcBytes(len) == (len * 3 + 3) \div 4

WhiteSpace == {" "}

RECURSIVE TrimStart(_)
TrimStart(s) ==
  IF s = <<>> THEN <<>>
  ELSE IF Head(s) \in WhiteSpace THEN TrimStart(Tail(s)) ELSE s

RECURSIVE TrimEnd(_)
TrimEnd(s) ==
  IF s = <<>> THEN <<>>
  ELSE IF s[Len(s)] \in WhiteSpace THEN TrimEnd(SubSeq(s, 1, Len(s) - 1)) ELSE s

\* variant of Trim that leaves the string as it is
Trim_None(s) == s

\* String.prototype.trim on a string given as a sequence of characters
Trim(s) == TrimEnd(TrimStart(s))

\* data.ParsedResults?.[0]?.ParsedText?.trim() || ""
ExtractRule(data) ==
  IF ~data.hasResults THEN <<>>
  ELSE IF Len(data.ParsedResults) = 0 THEN <<>>
  ELSE IF ~data.ParsedResults[1].hasText THEN <<>>
  ELSE Trim(data.ParsedResults[1].ParsedText)

NoResultFromAI == "No result from AI."

\* variant of ResultOrFallback that always gives the fallback string
ResultOrFallback_Always(data) == NoResultFromAI

\* variant of ResultOrFallback without the fallback
ResultOrFallback_Raw(data) == data.result

\* data.result || "No result from AI."
ResultOrFallback(data) ==
  IF data.hasResult /\ data.result # "" THEN data.result ELSE NoResultFromAI

\* ------------------------------------------------------ environment data
Undefined == -1

\* sizes (bytes) of the files the encoder can write: at and above the ceiling
FileSizes == {MAX_FILE_SIZE, MAX_FILE_SIZE + 1}

\* lengths of the base64 strings the platform can return; 1398101 characters
\* decode to exactly 1048576 bytes, 1398102 to 1048577
B64Lens == {0, 1398101, 1398102}

\* the asset uri of the k-th capture, and the letter printed on that image
Uris == <<"u1", "u2", "u3", "u4">>
Letters == <<"a", "b", "c", "d">>
Explanations == <<"Ea", "Eb", "Ec", "Ed">>

\* JSON bodies the OCR endpoint can answer with for the image of run r
OcrBodies(r) ==
  { [hasResults |-> FALSE, ParsedResults |-> <<>>],
    [hasResults |-> TRUE, ParsedResults |-> <<>>],
    [hasResults |-> TRUE, ParsedResults |-> <<[hasText |-> FALSE, ParsedText |-> <<>>]>>],
    [hasResults |-> TRUE, ParsedResults |-> <<[hasText |-> TRUE, ParsedText |-> <<" ">>]>>],
    [hasResults |-> TRUE,
     ParsedResults |-> <<[hasText |-> TRUE, ParsedText |-> <<" ", Letters[r], " ">>]>>] }

\* JSON bodies the analysis endpoint can answer with for the text of run r
AiBodies(r) ==
  { [hasResult |-> FALSE, result |-> ""],
    [hasResult |-> TRUE, result |-> ""],
    [hasResult |-> TRUE, result |-> Explanations[r]] }

HttpStatus == {"2xx", "non2xx"}

ExtractionFailure == "Failed to extract text."
NoTextDetected == "No text detected"
AnalysisFailure == "Could not connect to AI service."

\* ------------------------------------------------------------------ state
VARIABLES
  variant,        \* which version of the component is running
  imageUri,       \* useState: preview reference ("" for null)
  extractedText,  \* useState: sequence of characters
  aiResult,       \* useState
  loading,        \* useState: the busy flag
  capture,        \* the pickImage / takePhoto invocation in progress
  runs            \* the invocations of extractText, in the order they started

vars == <<variant, imageUri, extractedText, aiResult, loading, capture, runs>>

Handlers == {"pickImage", "takePhoto"}

\* no handler is in progress; outcome tells how the last one ended
NoCapture(outcome) == [handler |-> "none", pc |-> "none", outcome |-> outcome]

\* locals of the reduction loop once the loop has been left
LoopDead == [quality |-> <<0, 0>>, size |-> 0, encodes |-> 0, compress |-> <<0, 0>>]

\* locals of extractText that are not used after the OCR request is built
BuildDead == [fileSize |-> 0, origLen |-> Undefined, manipLen |-> Undefined]

\* what is known of the OCR request while it is pending
RequestDead ==
  [payload |-> "formData", sentBytes |-> Undefined, floorReached |-> FALSE,
   aborted |-> "none"]

\* value of `data` before the OCR response has been parsed
NoData == [hasResults |-> FALSE, ParsedResults |-> <<>>]

\* value of analyzeWithAI's `data` before the response has been parsed
NoAiData == [hasResult |-> FALSE, result |-> ""]

\* the invocation extractText(uri) right after its synchronous prefix
NewRun(firstPc) ==
  [pc |-> firstPc,            \* the await extractText is suspended at
   quality |-> <<0, 0>>,      \* let quality
   size |-> 0,                \* let size (first version)
   fileSize |-> 0,            \* bytes of the file at compressed.uri
   origLen |-> Undefined,     \* base64.length of the original (second version)
   manipLen |-> Undefined,    \* manipulatedBase64.length, Undefined if unset
   payload |-> "formData",    \* which form is sent: formData or newForm
   status |-> "none",         \* status of the OCR response
   apc |-> "none",            \* the await analyzeWithAI is suspended at
   astatus |-> "none",        \* status of the analysis response
   atext |-> <<>>,            \* the text analyzeWithAI was called with
   \* history of the run
   alerts |-> <<>>,           \* Alert.alert calls, in order
   failed |-> FALSE,          \* extractText's catch block ran
   afailed |-> FALSE,         \* analyzeWithAI's catch block ran
   encodes |-> IF firstPc = "manip0" THEN 1 ELSE 0,  \* calls of manipulateAsync
   compress |-> IF firstPc = "manip0" THEN Q07 ELSE <<0, 0>>,  \* their compress
   encodeFailed |-> FALSE,    \* a call of manipulateAsync rejected
   floorReached |-> FALSE,    \* the loop ended because its quality test failed
   aborted |-> "none",        \* why the second version left its reduction early
   ocrPosts |-> 0,            \* POSTs to the OCR endpoint
   sentBytes |-> Undefined,   \* size of the image in the pending OCR request
   ocrOutcome |-> "none",     \* how the OCR request ended
   data |-> NoData,           \* const data: the parsed OCR response
   text |-> <<>>,             \* const text
   textSet |-> FALSE,         \* setExtractedText(text) ran with the OCR text
   aiPosts |-> 0,             \* POSTs to the analysis endpoint
   aiOutcome |-> "none",      \* how the analysis request ended
   adata |-> NoAiData,        \* analyzeWithAI's const data
   aiSet |-> FALSE]           \* setAiResult ran

RunIds == 1..Len(runs)

Init ==
  /\ variant \in {1, 2}
  /\ imageUri = ""
  /\ extractedText = <<>>
  /\ aiResult = ""
  /\ loading = FALSE
  /\ capture = NoCapture("none")
  /\ runs = <<>>

\* ---------------------------------------------------- pickImage/takePhoto
\* the button is pressed: request*PermissionsAsync is awaited.  The system
\* dialogs cover the screen, so one handler is in progress at a time.
CaptureStart(h) ==
  /\ capture.pc = "none"
  /\ Len(runs) < MaxRuns
  /\ capture' = [handler |-> h, pc |-> "perm", outcome |-> "none"]
  /\ UNCHANGED <<variant, imageUri, extractedText, aiResult, loading, runs>>

\* the permission request resolves; a refusal shows the permission alert
PermissionResolved(h) ==
  /\ capture = [handler |-> h, pc |-> "perm", outcome |-> "none"]
  /\ \E granted \in BOOLEAN :
       capture' = IF granted
                  THEN [handler |-> h, pc |-> "picker", outcome |-> "none"]
                  ELSE NoCapture("denied")
  /\ UNCHANGED <<variant, imageUri, extractedText, aiResult, loading, runs>>

\* synchronous prefix of extractText(uri), up to its first await
ExtractTextStart ==
  /\ loading' = TRUE
  /\ extractedText' = <<>>
  /\ aiResult' = ""
  /\ runs' = Append(runs, NewRun(IF variant = 1 THEN "manip0" ELSE "read64"))

\* variant of PickerResolved that uses result.assets without testing canceled
PickerResolved_IgnoresCancel(h) ==
  /\ capture = [handler |-> h, pc |-> "picker", outcome |-> "none"]
  /\ \E canceled \in BOOLEAN :
       /\ Len(runs) < MaxRuns
       /\ capture' = NoCapture(IF canceled THEN "canceled" ELSE "started")
       /\ imageUri' = Uris[Len(runs) + 1]
       /\ ExtractTextStart
  /\ UNCHANGED variant

\* launchImageLibraryAsync / launchCameraAsync resolves
PickerResolved(h) ==
  /\ capture = [handler |-> h, pc |-> "picker", outcome |-> "none"]
  /\ \E canceled \in BOOLEAN :
       IF canceled
       THEN /\ capture' = NoCapture("canceled")
            /\ UNCHANGED <<imageUri, extractedText, aiResult, loading, runs>>
       ELSE /\ Len(runs) < MaxRuns
            /\ capture' = NoCapture("started")
            /\ imageUri' = Uris[Len(runs) + 1]
            /\ ExtractTextStart
  /\ UNCHANGED variant

\* ------------------------------------------------------------ extractText
\* the record rec with the fields of upd replaced
With(rec, upd) == upd @@ rec

\* variant of ExtractCatch without the finally block
ExtractCatch_NoFinally(r, upd) ==
  /\ runs' = [runs EXCEPT ![r] =
       With(@, [pc |-> "done", failed |-> TRUE, status |-> "none",
                alerts |-> Append(@.alerts, ExtractionFailure)]
               @@ upd @@ LoopDead @@ BuildDead @@ RequestDead)]
  /\ UNCHANGED <<extractedText, aiResult, loading>>

\* catch (err) { Alert.alert("Error", "Failed to extract text.") }
\* finally { setLoading(false) }
ExtractCatch(r, upd) ==
  /\ runs' = [runs EXCEPT ![r] =
       With(@, [pc |-> "done", failed |-> TRUE, status |-> "none",
                alerts |-> Append(@.alerts, ExtractionFailure)]
               @@ upd @@ LoopDead @@ BuildDead @@ RequestDead)]
  /\ loading' = FALSE
  /\ UNCHANGED <<extractedText, aiResult>>

\* extractText goes on without touching the component's state
ExtractStep(r, upd) ==
  /\ runs' = [runs EXCEPT ![r] = With(@, upd)]
  /\ UNCHANGED <<extractedText, aiResult, loading>>

\* variant of V1LoopTest whose loop stops at quality 0.6
V1LoopTest_EarlyExit(r, size, quality) ==
  IF size > MAX_FILE_SIZE /\ DGreater(quality, Q06)
  THEN ExtractStep(r, [pc |-> "manip", encodes |-> runs[r].encodes + 1,
                       size |-> size, quality |-> quality])
  ELSE ExtractStep(r, [pc |-> "read64",
                       floorReached |-> ~DGreater(quality, Q01)] @@ LoopDead)

\* variant of V1LoopTest whose loop goes on while the quality is positive
V1LoopTest_NoFloor(r, size, quality) ==
  IF size > MAX_FILE_SIZE /\ DGreater(quality, <<0, 0>>)
  THEN ExtractStep(r, [pc |-> "manip", encodes |-> runs[r].encodes + 1,
                       compress |-> quality, size |-> size, quality |-> quality])
  ELSE ExtractStep(r, [pc |-> "read64",
                       floorReached |-> ~DGreater(quality, Q01)] @@ LoopDead)

\* first version: the test of `while (size > MAX_FILE_SIZE && quality > 0.1)`
\* with the call that follows it, given the new values of size and quality
V1LoopTest(r, size, quality) ==
  IF size > MAX_FILE_SIZE /\ DGreater(quality, Q01)
  THEN ExtractStep(r, [pc |-> "manip", encodes |-> runs[r].encodes + 1,
                       compress |-> quality, size |-> size, quality |-> quality])
  ELSE ExtractStep(r, [pc |-> "read64",
                       floorReached |-> ~DGreater(quality, Q01)] @@ LoopDead)

\* variant of V1ManipulateResolved that swallows a rejection and goes on
V1ManipulateResolved_Swallow(r) ==
  /\ variant = 1
  /\ runs[r].pc \in {"manip0", "manip"}
  /\ \/ \E s \in FileSizes :
          ExtractStep(r, [pc |-> IF runs[r].pc = "manip0" THEN "size0" ELSE "size",
                          fileSize |-> s])
     \/ ExtractStep(r, [pc |-> "read64", encodeFailed |-> TRUE] @@ LoopDead)
  /\ UNCHANGED <<variant, imageUri, capture>>

\* first version: ImageManipulator.manipulateAsync resolves (lines 74, 90)
V1ManipulateResolved(r) ==
  /\ variant = 1
  /\ runs[r].pc \in {"manip0", "manip"}
  /\ \/ \E s \in FileSizes :
          ExtractStep(r, [pc |-> IF runs[r].pc = "manip0" THEN "size0" ELSE "size",
                          fileSize |-> s])
     \/ ExtractCatch(r, [encodeFailed |-> TRUE])
  /\ UNCHANGED <<variant, imageUri, capture>>

\* first version: getFileSize resolves (lines 86, 95) with the size of the
\* file just written; FileSystem and MAX_FILE_SIZE are not bound in the
\* file, so the step may throw instead
V1GetFileSizeResolved(r) ==
  /\ variant = 1
  /\ runs[r].pc \in {"size0", "size"}
  /\ \/ V1LoopTest(r, runs[r].fileSize,
                   IF runs[r].pc = "size0" THEN Q06 ELSE DSub(runs[r].quality, Q01))
     \/ ExtractCatch(r, <<>>)
  /\ UNCHANGED <<variant, imageUri, capture>>

\* fetch("https://api.ocr.space/parse/image", ...) is called
OcrFetchCall(r, bytes, upd) ==
  ExtractStep(r, [pc |-> "fetch", ocrPosts |-> runs[r].ocrPosts + 1,
                  sentBytes |-> bytes] @@ upd @@ LoopDead @@ BuildDead)

\* first version: readAsStringAsync(compressed.uri) resolves (line 102)
V1ReadResolved(r) ==
  /\ variant = 1
  /\ runs[r].pc = "read64"
  /\ \/ OcrFetchCall(r, runs[r].fileSize, <<>>)
     \/ ExtractCatch(r, <<>>)
  /\ UNCHANGED <<variant, imageUri, capture>>

\* second version: lines 353-368, after the loop: the form that is sent
V2AfterLoop(r, manipLen, upd) ==
  IF manipLen > 0
  THEN OcrFetchCall(r, calcBytes(manipLen), [payload |-> "newForm"] @@ upd)
  ELSE OcrFetchCall(r, calcBytes(runs[r].origLen), upd)

\* second version: the test of `while (quality >= 0.1)` with what follows
V2LoopTest(r, quality, manipLen) ==
  IF DGeq(quality, Q01)
  THEN ExtractStep(r, [pc |-> "manip", encodes |-> runs[r].encodes + 1,
                       compress |-> quality, quality |-> quality,
                       manipLen |-> manipLen])
  ELSE V2AfterLoop(r, manipLen, [floorReached |-> TRUE])

\* second version: readAsStringAsync(uri) resolves (line 316)
V2ReadResolved(r) ==
  /\ variant = 2
  /\ runs[r].pc = "read64"
  /\ \/ \E len \in B64Lens :
          IF calcBytes(len) > maxBytes
          THEN ExtractStep(r, [pc |-> "import", origLen |-> len])
          ELSE OcrFetchCall(r, calcBytes(len), <<>>)
     \/ ExtractCatch(r, <<>>)
  /\ UNCHANGED <<variant, imageUri, capture>>

\* second version: import("expo-image-manipulator") resolves (line 330);
\* a rejection is caught by the inner catch (line 364)
V2ImportResolved(r) ==
  /\ variant = 2
  /\ runs[r].pc = "import"
  /\ \/ V2LoopTest(r, Q09, Undefined)
     \/ OcrFetchCall(r, calcBytes(runs[r].origLen), [aborted |-> "import"])
  /\ UNCHANGED <<variant, imageUri, capture>>

\* second version: ImageManipulator.manipulateAsync resolves (line 336)
V2ManipulateResolved(r) ==
  /\ variant = 2
  /\ runs[r].pc = "manip"
  /\ \/ \E len \in B64Lens \cup {Undefined} :
          IF len > 0
          THEN IF calcBytes(len) <= maxBytes
               THEN V2AfterLoop(r, len, <<>>)
               ELSE V2LoopTest(r, DSub(runs[r].quality, Q015), len)
          ELSE V2AfterLoop(r, runs[r].manipLen, [aborted |-> "nobase64"])
     \/ OcrFetchCall(r, calcBytes(runs[r].origLen),
                     [encodeFailed |-> TRUE, aborted |-> "threw"])
  /\ UNCHANGED <<variant, imageUri, capture>>

\* variant of OcrFetchResolved that sends the request again after a rejection
OcrFetchResolved_Retry(r) ==
  /\ runs[r].pc = "fetch"
  /\ \/ \E st \in HttpStatus :
          ExtractStep(r, [pc |-> "json", status |-> st] @@ RequestDead)
     \/ ExtractStep(r, [ocrPosts |-> runs[r].ocrPosts + 1])
  /\ UNCHANGED <<variant, imageUri, capture>>

\* variant of OcrFetchResolved that reports a rejection as "no text"
OcrFetchResolved_WrongAlert(r) ==
  /\ runs[r].pc = "fetch"
  /\ \/ \E st \in HttpStatus :
          ExtractStep(r, [pc |-> "json", status |-> st] @@ RequestDead)
     \/ /\ runs' = [runs EXCEPT ![r] =
               With(@, [pc |-> "done", ocrOutcome |-> "rejected",
                        alerts |-> Append(@.alerts, NoTextDetected)] @@ RequestDead)]
        /\ loading' = FALSE
        /\ UNCHANGED <<extractedText, aiResult>>
  /\ UNCHANGED <<variant, imageUri, capture>>

\* the OCR fetch settles (lines 111, 368): a response of any status, or a
\* rejection
OcrFetchResolved(r) ==
  /\ runs[r].pc = "fetch"
  /\ \/ \E st \in HttpStatus :
          ExtractStep(r, [pc |-> "json", status |-> st] @@ RequestDead)
     \/ ExtractCatch(r, [ocrOutcome |-> "rejected"])
  /\ UNCHANGED <<variant, imageUri, capture>>

\* synchronous prefix of analyzeWithAI(text): setLoading(true), fetch(...)
AnalyzeStart(r, text) ==
  [apc |-> "fetch", atext |-> text, aiPosts |-> runs[r].aiPosts + 1]

\* response.json() settles (lines 116-133, 373-388)
OcrJsonResolved(r) ==
  /\ runs[r].pc = "json"
  /\ \/ \E data \in OcrBodies(r) :
          LET text == ExtractRule(data)
              hist == [pc |-> "done", data |-> data, text |-> text,
                       textSet |-> TRUE, status |-> "none",
                       ocrOutcome |-> "parsed"]
          IN  /\ extractedText' = text
              /\ IF text # <<>>
                 THEN runs' = [runs EXCEPT ![r] =
                                 With(@, AnalyzeStart(r, text) @@ hist)]
                 ELSE runs' = [runs EXCEPT ![r] =
                                 With(@, [alerts |-> Append(@.alerts, NoTextDetected)]
                                         @@ hist)]
              /\ loading' = FALSE
              /\ UNCHANGED aiResult
     \/ ExtractCatch(r, [ocrOutcome |-> "malformed"])
  /\ UNCHANGED <<variant, imageUri, capture>>

\* ---------------------------------------------------------- analyzeWithAI
\* catch (err) { Alert.alert("Error", "Could not connect to AI service.") }
\* finally { setLoading(false) }
AnalyzeCatch(r, outcome) ==
  /\ runs' = [runs EXCEPT ![r] =
       With(@, [apc |-> "done", afailed |-> TRUE, aiOutcome |-> outcome,
                astatus |-> "none", atext |-> <<>>,
                alerts |-> Append(@.alerts, AnalysisFailure)])]
  /\ loading' = FALSE
  /\ UNCHANGED <<extractedText, aiResult>>

\* the analysis fetch settles (lines 140, 395)
AiFetchResolved(r) ==
  /\ runs[r].apc = "fetch"
  /\ \/ /\ \E st \in HttpStatus :
             runs' = [runs EXCEPT ![r] = With(@, [apc |-> "json", astatus |-> st])]
        /\ UNCHANGED <<extractedText, aiResult, loading>>
     \/ AnalyzeCatch(r, "rejected")
  /\ UNCHANGED <<variant, imageUri, capture>>

\* res.json() settles (lines 146-153, 401-408)
AiJsonResolved(r) ==
  /\ runs[r].apc = "json"
  /\ \/ \E data \in AiBodies(r) :
          /\ aiResult' = ResultOrFallback(data)
          /\ runs' = [runs EXCEPT ![r] =
               With(@, [apc |-> "done", aiSet |-> TRUE, adata |-> data,
                        astatus |-> "none",
                        atext |-> <<>>, aiOutcome |-> "parsed"])]
          /\ loading' = FALSE
          /\ UNCHANGED extractedText
     \/ AnalyzeCatch(r, "malformed")
  /\ UNCHANGED <<variant, imageUri, capture>>

\* ------------------------------------------------------------ the program
Next ==
  \/ \E h \in Handlers : CaptureStart(h)
  \/ \E h \in Handlers : PermissionResolved(h)
  \/ \E h \in Handlers : PickerResolved(h)
  \/ \E r \in RunIds : V1ManipulateResolved(r)
  \/ \E r \in RunIds : V1GetFileSizeResolved(r)
  \/ \E r \in RunIds : V1ReadResolved(r)
  \/ \E r \in RunIds : V2ReadResolved(r)
  \/ \E r \in RunIds : V2ImportResolved(r)
  \/ \E r \in RunIds : V2ManipulateResolved(r)
  \/ \E r \in RunIds : OcrFetchResolved(r)
  \/ \E r \in RunIds : OcrJsonResolved(r)
  \/ \E r \in RunIds : AiFetchResolved(r)
  \/ \E r \in RunIds : AiJsonResolved(r)

Spec == Init /\ [][Next]_vars

\* every pending await of a run settles
RunStep ==
  \E r \in RunIds :
    \/ V1ManipulateResolved(r) \/ V1GetFileSizeResolved(r) \/ V1ReadResolved(r)
    \/ V2ReadResolved(r) \/ V2ImportResolved(r) \/ V2ManipulateResolved(r)
    \/ OcrFetchResolved(r) \/ OcrJsonResolved(r)
    \/ AiFetchResolved(r) \/ AiJsonResolved(r)

FairSpec == Spec /\ WF_vars(RunStep)

\* ----------------------------------------------------------------- stages
\* PipelineState of a run
Stage(run) ==
  IF run.pc \in {"manip0", "size0", "manip", "size", "read64", "import"} THEN "Reducing"
  ELSE IF run.pc \in {"fetch", "json"} THEN "ExtractingText"
  ELSE IF run.failed THEN "Failed"
  ELSE IF run.apc \in {"fetch", "json"} THEN "Explaining"
  ELSE IF run.afailed THEN "Failed"
  ELSE "Done"

InFlight(run) == Stage(run) \in {"Reducing", "ExtractingText", "Explaining"}

\* no started run is in Reducing, ExtractingText or Explaining
AllSettled == \A r \in RunIds : ~InFlight(runs[r])

\* ------------------------------------------------------------------ claims

\* C1: with a single run, loading is true exactly while the run is in
\* Reducing, ExtractingText or Explaining, and false in Idle, Done and Failed.
C1_BusyIffInFlight ==
  /\ Len(runs) = 0 => ~loading
  /\ Len(runs) = 1 => (loading <=> InFlight(runs[1]))

\* C2: at most one run is in a non-terminal stage at any time.
C2_AtMostOneInFlight ==
  Cardinality({r \in RunIds : InFlight(runs[r])}) <= 1

\* C3: an OCR request that ends in a network failure, a non-2xx status or a
\* malformed body ends the run in Failed with the extraction-failure alert,
\* without the no-text alert, without setting the text and without analysis.
C3_OcrFailureFails ==
  [][\A r \in RunIds :
       (/\ runs[r].pc \in {"fetch", "json"}
        /\ runs'[r].pc = "done"
        /\ \/ runs'[r].ocrOutcome \in {"rejected", "malformed"}
           \/ runs[r].status = "non2xx") =>
         /\ runs'[r].failed
         /\ runs'[r].alerts = <<ExtractionFailure>>
         /\ ~runs'[r].textSet
         /\ runs'[r].aiPosts = 0]_vars

\* C4: an analysis request that ends in a network failure or a non-2xx
\* status ends the run in Failed with the analysis-connection alert and
\* leaves the explanation unset.
C4_AnalysisFailureFails ==
  [][\A r \in RunIds :
       (/\ runs[r].apc \in {"fetch", "json"}
        /\ runs'[r].apc = "done"
        /\ \/ runs'[r].aiOutcome = "rejected"
           \/ runs[r].astatus = "non2xx") =>
         /\ runs'[r].afailed
         /\ runs'[r].alerts = <<AnalysisFailure>>
         /\ ~runs'[r].aiSet]_vars

\* C5 as stated: in either version, once manipulateAsync has failed no OCR
\* request is sent and the run ends in Failed with a failure alert.
C5_EncodeFailureStopsRun ==
  \A r \in RunIds :
    runs[r].encodeFailed =>
      /\ runs[r].ocrPosts = 0
      /\ Stage(runs[r]) = "Failed"
      /\ runs[r].alerts = <<ExtractionFailure>>

\* C5 amended: in the first version a failure of manipulateAsync sends no
\* OCR request and ends the run in Failed with the extraction-failure alert;
\* in the second version the failure is caught inside the reduction step and
\* the OCR request is sent once, with the original (oversize) image.
C5_EncodeFailure ==
  \A r \in RunIds :
    runs[r].encodeFailed =>
      IF variant = 1
      THEN /\ runs[r].ocrPosts = 0
           /\ Stage(runs[r]) = "Failed"
           /\ runs[r].alerts = <<ExtractionFailure>>
      ELSE /\ runs[r].ocrPosts = 1
           /\ runs[r].pc = "fetch" =>
                /\ runs[r].payload = "formData"
                /\ runs[r].sentBytes > maxBytes

C5_Witness ==
  \E r \in RunIds :
    /\ variant = 1
    /\ runs[r].encodeFailed
    /\ runs[r].failed
    /\ runs[r].ocrPosts = 0

\* C6 as stated: the image in the OCR request exceeds the ceiling only if
\* the reduction loop ended because the quality had reached the floor.
C6_OversizeOnlyAtFloor ==
  \A r \in RunIds :
    (runs[r].pc = "fetch" /\ runs[r].sentBytes > MAX_FILE_SIZE) =>
      runs[r].floorReached

\* C6 amended: the image in the OCR request exceeds the ceiling only if the
\* reduction loop ended because the quality had reached the floor, or, in
\* the second version, the reduction step was given up (the import or
\* manipulateAsync rejected, or manipulateAsync returned no base64 data).
C6_OversizeOnlyAtFloorOrGivenUp ==
  \A r \in RunIds :
    (runs[r].pc = "fetch" /\ runs[r].sentBytes > MAX_FILE_SIZE) =>
      \/ runs[r].floorReached
      \/ variant = 2 /\ runs[r].aborted \in {"import", "nobase64", "threw"}

C6_Witness ==
  \E r \in RunIds :
    /\ variant = 1
    /\ runs[r].pc = "fetch"
    /\ runs[r].sentBytes > MAX_FILE_SIZE
    /\ runs[r].floorReached

\* the OCR response carries no text: ParsedResults missing or empty,
\* ParsedText missing or made of white space only
BlankBody(data) ==
  \/ ~data.hasResults
  \/ data.ParsedResults = <<>>
  \/ ~data.ParsedResults[1].hasText
  \/ \A i \in 1..Len(data.ParsedResults[1].ParsedText) :
       data.ParsedResults[1].ParsedText[i] = " "

\* C7: the analysis request is issued only after the run's OCR response has
\* been parsed and has non-blank text; a run whose OCR response is blank
\* never calls the analysis and ends in Done with exactly the no-text alert.
C7_AnalysisOnlyOnText ==
  \A r \in RunIds :
    /\ (runs[r].aiPosts > 0 \/ runs[r].apc # "none") =>
         /\ runs[r].textSet
         /\ ~BlankBody(runs[r].data)
         /\ runs[r].text # <<>>
    /\ (runs[r].textSet /\ BlankBody(runs[r].data)) =>
         /\ runs[r].aiPosts = 0
         /\ runs[r].apc = "none"
         /\ Stage(runs[r]) = "Done"
         /\ runs[r].alerts = <<NoTextDetected>>

C7_Witness ==
  \E r \in RunIds :
    /\ runs[r].textSet
    /\ runs[r].data.hasResults
    /\ runs[r].data.ParsedResults # <<>>
    /\ runs[r].data.ParsedResults[1].ParsedText = <<" ">>
    /\ runs[r].alerts = <<NoTextDetected>>

\* C8: when the OCR fetch rejects, the run is Failed, loading is false after
\* the rejection has been handled, the analysis is never called and the only
\* alert of the run is the extraction failure.
C8_OcrRejection ==
  [][\A r \in 1..Len(runs') :
       runs'[r].ocrOutcome = "rejected" =>
         /\ Stage(runs'[r]) = "Failed"
         /\ runs'[r].aiPosts = 0
         /\ runs'[r].apc = "none"
         /\ runs'[r].alerts = <<ExtractionFailure>>
         /\ (r \in RunIds /\ runs[r].pc = "fetch") => ~loading']_vars

C8_Witness ==
  \E r \in RunIds :
    /\ runs[r].ocrOutcome = "rejected"
    /\ runs[r].ocrPosts = 1
    /\ ~loading

\* C9: whenever every started run is in Done or Failed loading is false, and
\* if every pending stage eventually settles, then from some point on every
\* started run is in Done or Failed and loading is false for good.
C9_BusyAlwaysClears ==
  /\ [](AllSettled => ~loading)
  /\ <>[](AllSettled /\ ~loading)

C9_Witness ==
  /\ Len(runs) = MaxRuns
  /\ AllSettled
  /\ ~loading
  /\ \E r \in RunIds : runs[r].failed
  /\ \E r \in RunIds : runs[r].aiSet

\* C10: a step of a run that is not the latest one leaves extractedText,
\* aiResult and loading as they are.
C10_StaleRunsChangeNothing ==
  [][\A r \in RunIds :
       (r < Len(runs) /\ runs'[r] # runs[r]) =>
         /\ extractedText' = extractedText
         /\ aiResult' = aiResult
         /\ loading' = loading]_vars

\* pcs of extractText inside the size-reduction step
LoopPcs == {"manip0", "size0", "manip", "size", "import"}

\* C11: the reduction makes at most 7 calls of manipulateAsync in the first
\* version and at most 6 in the second, every call after the first is given
\* a strictly smaller quality than the one before, and the loop terminates:
\* again and again no run is inside the reduction step.
C11_LoopBounded ==
  /\ [](\A r \in RunIds : runs[r].encodes <= IF variant = 1 THEN 7 ELSE 6)
  /\ [][\A r \in RunIds :
          (runs[r].encodes >= 1 /\ runs'[r].encodes = runs[r].encodes + 1) =>
            DGreater(runs[r].compress, runs'[r].compress)]_vars
  /\ []<>(\A r \in RunIds : runs[r].pc \notin LoopPcs)

C11_Witness ==
  \E r \in RunIds :
    /\ variant = 1
    /\ runs[r].encodes = 7
    /\ runs[r].pc = "size"
    /\ runs[r].fileSize > MAX_FILE_SIZE

\* C12: every run shows at most one alert; a run whose reduction or OCR
\* stage fails (an exception before the request, a rejected request, a
\* non-2xx status or a malformed body) shows only the extraction failure,
\* and a run whose analysis fails (rejected request, non-2xx status or
\* malformed body) shows only the analysis failure.
C12_OneTaggedAlert ==
  [][\A r \in RunIds :
       /\ Len(runs'[r].alerts) <= 1
       /\ (/\ runs[r].pc # "done"
           /\ runs'[r].pc = "done"
           /\ \/ runs'[r].failed
              \/ runs[r].status = "non2xx") =>
            runs'[r].alerts = <<ExtractionFailure>>
       /\ (/\ runs[r].apc \in {"fetch", "json"}
           /\ runs'[r].apc = "done"
           /\ \/ runs'[r].afailed
              \/ runs[r].astatus = "non2xx") =>
            runs'[r].alerts = <<AnalysisFailure>>]_vars

\* C13: a run sends at most one POST to the OCR endpoint and at most one to
\* the analysis endpoint, whatever the outcome of its stages.
C13_NoRetry ==
  \A r \in RunIds :
    /\ runs[r].ocrPosts <= 1
    /\ runs[r].aiPosts <= 1
    /\ (runs[r].pc = "done" /\ runs[r].ocrOutcome # "none") => runs[r].ocrPosts = 1
    /\ runs[r].apc # "none" => runs[r].aiPosts = 1

C13_Witness ==
  /\ \E r \in RunIds :
       /\ runs[r].ocrOutcome = "rejected"
       /\ runs[r].ocrPosts = 1
       /\ runs[r].aiPosts = 0
  /\ \E r \in RunIds :
       /\ runs[r].afailed
       /\ runs[r].ocrPosts = 1
       /\ runs[r].aiPosts = 1

\* stage of the only run, Idle before it has started
OnlyStage(rs) == IF rs = <<>> THEN "Idle" ELSE Stage(rs[1])

\* the steps of the pipeline state machine
StageSteps ==
  { <<"Idle", "Reducing">>, <<"Reducing", "ExtractingText">>,
    <<"ExtractingText", "Explaining">>, <<"Explaining", "Done">>,
    <<"Reducing", "Failed">>, <<"ExtractingText", "Failed">>,
    <<"ExtractingText", "Done">>, <<"Explaining", "Failed">> }

\* C14: with a single run, the stage changes only along the steps of the
\* state machine, and once the OCR response has carried the text T of the
\* image and the analysis response the result E, the run is in Done with
\* extractedText = T, aiResult = E, loading false and no alert.
C14_HappyPath ==
  /\ [][(Len(runs') = 1 /\ OnlyStage(runs') # OnlyStage(runs)) =>
          <<OnlyStage(runs), OnlyStage(runs')>> \in StageSteps]_vars
  /\ [](( /\ Len(runs) = 1
          /\ runs[1].aiOutcome = "parsed"
          /\ runs[1].adata.hasResult
          /\ runs[1].adata.result # "" ) =>
        ( /\ ~BlankBody(runs[1].data)
          /\ Stage(runs[1]) = "Done"
          /\ extractedText = <<Letters[1]>>
          /\ aiResult = runs[1].adata.result
          /\ ~loading
          /\ runs[1].alerts = <<>> ))

C14_Witness ==
  /\ Len(runs) = 1
  /\ Stage(runs[1]) = "Done"
  /\ runs[1].ocrPosts = 1
  /\ runs[1].aiPosts = 1
  /\ extractedText = <<"a">>
  /\ aiResult = "Ea"
  /\ ~loading
  /\ runs[1].alerts = <<>>

\* C15: when the analysis response has been parsed and has no `result`
\* field, aiResult becomes exactly the fallback string, the run is in Done
\* and it has shown no alert.
C15_FallbackOnMissingResult ==
  [][\A r \in RunIds :
       (/\ runs[r].apc = "json"
        /\ runs'[r].aiOutcome = "parsed"
        /\ ~runs'[r].adata.hasResult) =>
         /\ aiResult' = "No result from AI."
         /\ Stage(runs'[r]) = "Done"
         /\ runs'[r].alerts = <<>>]_vars

C15_Witness ==
  \E r \in RunIds :
    /\ runs[r].aiOutcome = "parsed"
    /\ ~runs[r].adata.hasResult
    /\ runs[r].aiSet
    /\ aiResult = "No result from AI."

\* C16: a capture whose permission is refused or whose picker is cancelled
\* starts no run and leaves imageUri, extractedText, aiResult, loading and
\* every run (hence every request) as they are; a capture that is granted
\* and not cancelled sets imageUri to the asset and starts exactly one run;
\* runs start in no other way.
C16_CaptureEffect ==
  [][/\ (capture.pc # "none" /\ capture'.outcome \in {"denied", "canceled"}) =>
          /\ imageUri' = imageUri
          /\ extractedText' = extractedText
          /\ aiResult' = aiResult
          /\ loading' = loading
          /\ runs' = runs
     /\ (capture.pc # "none" /\ capture'.outcome = "started") =>
          /\ capture.pc = "picker"
          /\ Len(runs') = Len(runs) + 1
          /\ SubSeq(runs', 1, Len(runs)) = runs
          /\ runs'[Len(runs')].ocrPosts = 0
          /\ runs'[Len(runs')].aiPosts = 0
          /\ InFlight(runs'[Len(runs')])
          /\ imageUri' = Uris[Len(runs')]
     /\ Len(runs') # Len(runs) =>
          (capture.pc = "picker" /\ capture'.outcome = "started")]_vars

C16_Witness ==
  /\ capture.outcome = "canceled"
  /\ Len(runs) = 1
  /\ imageUri = "u1"
  /\ loading
  /\ runs[1].ocrPosts = 0

\* C17: whenever aiResult is non-empty, extractedText is non-empty, and an
\* explanation on display is the explanation of the text on display.
C17_ResultMatchesText ==
  /\ aiResult # "" => extractedText # <<>>
  /\ \A k \in 1..MaxRuns :
       aiResult = Explanations[k] => extractedText = <<Letters[k]>>

====
